---- MODULE Spec2Model ----
(***************************************************************************)
(* Model of the document-intelligence pipeline of ai-document-analyzer:    *)
(* the upload route, the two process_document orchestrators (async and     *)
(* sync), the file-backed document metadata store, the parent-chunk        *)
(* collection, the child vector index, the hierarchical chunker and the    *)
(* query route.                                                            *)
(***************************************************************************)
EXTENDS Integers, Sequences, FiniteSets, TLC

(***************************************************************************)
(* Bounds of the model.                                                    *)
(***************************************************************************)
\* number of document ids (uuid4 values) that uploads may draw
MaxDocs == 2
\* longest text handed to the chunker in SpecChunk
MaxLen == 5
\* largest parent chunk_size drawn in SpecChunk (smallest is 2)
MaxParentSize == 4

None == "None"

(***************************************************************************)
(* Text.  A text is a sequence of one-character strings.                   *)
(***************************************************************************)
NL == "\n"
Whitespace == {" ", NL}
Alphabet == {"a", "b", " ", NL}

RECURSIVE TextsOfLen(_)
TextsOfLen(n) ==
    IF n = 0 THEN {<<>>}
    ELSE {Append(t, c) : t \in TextsOfLen(n - 1), c \in Alphabet}

Texts == UNION {TextsOfLen(n) : n \in 0..MaxLen}

\* s occurs in t starting at position i
OccursAt(t, s, i) ==
    /\ i >= 1
    /\ i + Len(s) - 1 <= Len(t)
    /\ SubSeq(t, i, i + Len(s) - 1) = s

IsSubstring(s, t) == \E i \in 1..(Len(t) + 1) : OccursAt(t, s, i)

\* str.strip()
RECURSIVE lstrip(_)
lstrip(t) ==
    IF t # <<>> /\ Head(t) \in Whitespace THEN lstrip(Tail(t)) ELSE t

RECURSIVE rstrip(_)
rstrip(t) ==
    IF t # <<>> /\ t[Len(t)] \in Whitespace
    THEN rstrip(SubSeq(t, 1, Len(t) - 1)) ELSE t

strip(t) == rstrip(lstrip(t))

RECURSIVE Concat(_)
Concat(ss) == IF ss = <<>> THEN <<>> ELSE Head(ss) \o Concat(Tail(ss))

RECURSIVE SumLen(_)
SumLen(ss) == IF ss = <<>> THEN 0 ELSE Len(Head(ss)) + SumLen(Tail(ss))

(***************************************************************************)
(* RecursiveCharacterTextSplitter, as get_splitters configures it:         *)
(* default separators, keep_separator = True, strip_whitespace = True,     *)
(* length_function = len.  A splitter is a record                          *)
(* [chunk_size, chunk_overlap].                                            *)
(***************************************************************************)
Separators == << <<NL, NL>>, <<NL>>, <<" ">>, <<>> >>

Splitter(size, overlap) == [chunk_size |-> size, chunk_overlap |-> overlap]

\* re.split(sep, text): the pieces between leftmost non-overlapping matches
RECURSIVE re_split(_, _)
re_split(text, sep) ==
    LET hits == {i \in 1..Len(text) : OccursAt(text, sep, i)}
    IN  IF hits = {} THEN <<text>>
        ELSE LET i == CHOOSE k \in hits : \A j \in hits : k <= j
             IN  <<SubSeq(text, 1, i - 1)>>
                   \o re_split(SubSeq(text, i + Len(sep), Len(text)), sep)

\* _split_text_with_regex with keep_separator = True: every piece but the
\* first carries the separator in front; empty pieces are dropped
split_text_with_regex(text, sep) ==
    LET raw == IF sep = <<>>
               THEN [i \in 1..Len(text) |-> <<text[i]>>]
               ELSE LET ps == re_split(text, sep)
                    IN  [i \in 1..Len(ps) |-> IF i = 1 THEN ps[1] ELSE sep \o ps[i]]
    IN  SelectSeq(raw, LAMBDA s : s # <<>>)

\* _join_docs with separator "": the joined pieces, stripped.  Python returns
\* None for an empty result; here the empty text <<>> stands for that None.
join_docs(docs) == strip(Concat(docs))

\* the while loop of _merge_splits: drop pieces from the front of current_doc
RECURSIVE PopFront(_, _, _)
PopFront(cur, len, sp) ==
    LET total == SumLen(cur)
    IN  IF total > sp.chunk_overlap \/ (total + len > sp.chunk_size /\ total > 0)
        THEN PopFront(Tail(cur), len, sp)
        ELSE cur

\* _merge_splits(splits, "") from the state (docs, current_doc)
RECURSIVE MergeFrom(_, _, _, _)
MergeFrom(splits, docs, cur, sp) ==
    IF splits = <<>>
    THEN LET doc == join_docs(cur)
         IN  IF doc = <<>> THEN docs ELSE Append(docs, doc)
    ELSE LET d == Head(splits)
             over == SumLen(cur) + Len(d) > sp.chunk_size
             doc == join_docs(cur)
             docs1 == IF over /\ cur # <<>> /\ doc # <<>>
                      THEN Append(docs, doc) ELSE docs
             cur1 == IF over /\ cur # <<>> THEN PopFront(cur, Len(d), sp) ELSE cur
         IN  MergeFrom(Tail(splits), docs1, Append(cur1, d), sp)

merge_splits(splits, sp) == MergeFrom(splits, <<>>, <<>>, sp)

\* the separator _split_text picks: index of the first separator that is ""
\* or occurs in the text
PickSeparator(text, seps) ==
    CHOOSE i \in 1..Len(seps) :
        /\ seps[i] = <<>> \/ IsSubstring(seps[i], text)
        /\ \A j \in 1..(i - 1) : ~(seps[j] = <<>> \/ IsSubstring(seps[j], text))

\* RecursiveCharacterTextSplitter._split_text
RECURSIVE split_text_rec(_, _, _)
RECURSIVE SplitLoop(_, _, _, _, _)
SplitLoop(splits, good, final, newseps, sp) ==
    IF splits = <<>>
    THEN IF good # <<>> THEN final \o merge_splits(good, sp) ELSE final
    ELSE LET s == Head(splits)
         IN  IF Len(s) < sp.chunk_size
             THEN SplitLoop(Tail(splits), Append(good, s), final, newseps, sp)
             ELSE LET flushed == IF good # <<>>
                                 THEN final \o merge_splits(good, sp) ELSE final
                      more == IF newseps = <<>> THEN <<s>>
                              ELSE split_text_rec(s, newseps, sp)
                  IN  SplitLoop(Tail(splits), <<>>, flushed \o more, newseps, sp)

split_text_rec(text, seps, sp) ==
    LET i == PickSeparator(text, seps)
        newseps == IF seps[i] = <<>> THEN <<>> ELSE SubSeq(seps, i + 1, Len(seps))
    IN  SplitLoop(split_text_with_regex(text, seps[i]), <<>>, <<>>, newseps, sp)

split_text(sp, text) == split_text_rec(text, Separators, sp)

(***************************************************************************)
(* chunking_service.get_splitters / chunk_text_hierarchical.               *)
(* A chunk is a record [parent_id, text] (Document.page_content and        *)
(* metadata["parent_id"]).                                                 *)
(***************************************************************************)
get_splitters(parent_size, parent_overlap, child_size, child_overlap) ==
    <<Splitter(parent_size, parent_overlap), Splitter(child_size, child_overlap)>>

\* enumerate(parent_chunks): 0-based position of the i-th element
ParentIdxOff(i) == i
ParentIdx(i) == i - 1

\* the children of the parent at position i, in split order
ChildrenOf(parent_chunks, i, child_splitter) ==
    LET cs == split_text(child_splitter, parent_chunks[i])
    IN  [j \in 1..Len(cs) |-> [parent_id |-> ParentIdx(i), text |-> cs[j]]]

RECURSIVE ChildDocuments(_, _, _)
ChildDocuments(parent_chunks, i, child_splitter) ==
    IF i > Len(parent_chunks) THEN <<>>
    ELSE ChildrenOf(parent_chunks, i, child_splitter)
           \o ChildDocuments(parent_chunks, i + 1, child_splitter)

chunk_text_hierarchical(document_text, parent_splitter, child_splitter) ==
    LET parent_chunks == split_text(parent_splitter, document_text)
    IN  [parents |-> [i \in 1..Len(parent_chunks) |->
                        [parent_id |-> ParentIdx(i), text |-> parent_chunks[i]]],
         children |-> ChildDocuments(parent_chunks, 1, child_splitter)]

(***************************************************************************)
(* Document records of document_metadata_service (one JSON file per        *)
(* doc_id).  Text fields hold None or a token naming the text.  NoRec is   *)
(* what _load_metadata returns as None: the file is absent, or it does not *)
(* parse.                                                                  *)
(***************************************************************************)
Docs == 1..MaxDocs

NoRec == [absent |-> TRUE]

\* _save_metadata opens the file with mode 'w' and dumps the record: it
\* returns ("ok"), or raises before the file is truncated ("unchanged"), or
\* raises after it ("corrupt": the file no longer parses)
WriteOutcomes == {"ok", "unchanged", "corrupt"}

\* the record a failed write of r leaves behind
FailedWrites(r) == {r, NoRec}

Statuses == {"processing", "completed", "failed"}

\* save_document_metadata: the record it writes
save_document_metadata(doc_id, filename, filepath, status) ==
    [doc_id |-> doc_id, filename |-> filename, filepath |-> filepath,
     status |-> status, processed_text |-> None, cleaned_text |-> None,
     summary |-> None]

\* update_document_status with the status set only on a newly created record
update_document_status_create_only(r, doc_id, status, processed_text, cleaned_text) ==
    LET metadata == IF r = NoRec
                    THEN [doc_id |-> doc_id, filename |-> "unknown", filepath |-> "",
                          status |-> status, processed_text |-> None,
                          cleaned_text |-> None, summary |-> None]
                    ELSE r
        m2 == IF processed_text # None
              THEN [metadata EXCEPT !.processed_text = processed_text] ELSE metadata
    IN  IF cleaned_text # None THEN [m2 EXCEPT !.cleaned_text = cleaned_text] ELSE m2

\* update_document_status that stores both text arguments as passed
\* update_document_status applying its arguments to an existing record only:
\* an absent record is created as upload_document creates it
update_document_status_existing_only(r, doc_id, status, processed_text, cleaned_text) ==
    IF r = NoRec
    THEN [doc_id |-> doc_id, filename |-> "unknown", filepath |-> "",
          status |-> "processing", processed_text |-> None,
          cleaned_text |-> None, summary |-> None]
    ELSE LET m1 == [r EXCEPT !.status = status]
             m2 == IF processed_text # None
                   THEN [m1 EXCEPT !.processed_text = processed_text] ELSE m1
         IN  IF cleaned_text # None THEN [m2 EXCEPT !.cleaned_text = cleaned_text] ELSE m2

update_document_status_overwrite(r, doc_id, status, processed_text, cleaned_text) ==
    LET metadata == IF r = NoRec
                    THEN [doc_id |-> doc_id, filename |-> "unknown", filepath |-> "",
                          status |-> status, processed_text |-> None,
                          cleaned_text |-> None, summary |-> None]
                    ELSE r
    IN  [metadata EXCEPT !.status = status, !.processed_text = processed_text,
                         !.cleaned_text = cleaned_text]

\* update_document_status: the record it writes, given the record r that
\* _load_metadata returned (NoRec when the file is absent)
update_document_status(r, doc_id, status, processed_text, cleaned_text) ==
    LET metadata == IF r = NoRec
                    THEN [doc_id |-> doc_id, filename |-> "unknown", filepath |-> "",
                          status |-> status, processed_text |-> None,
                          cleaned_text |-> None, summary |-> None]
                    ELSE r
        m1 == [metadata EXCEPT !.status = status]
        m2 == IF processed_text # None
              THEN [m1 EXCEPT !.processed_text = processed_text] ELSE m1
    IN  IF cleaned_text # None THEN [m2 EXCEPT !.cleaned_text = cleaned_text] ELSE m2

(***************************************************************************)
(* The stages of process_document, in the order of the code.               *)
(***************************************************************************)
Orchestrators == {"async", "sync"}

Stages == {"extract", "normalize", "persist", "correct", "chunk", "ensure",
           "vector_store", "upsert", "parents", "complete"}

\* NextPc with the except block entered after the completed write as well
NextPcFinally(p, o) ==
    CASE p = "extract" -> "normalize"
      [] p = "normalize" -> "persist"
      [] p = "persist" -> "correct"
      [] p = "correct" -> "chunk"
      [] p = "chunk" -> "ensure"
      [] p = "ensure" -> "vector_store"
      [] p = "ensure_create" -> "vector_store"
      [] p = "vector_store" -> IF o = "async" THEN "gather" ELSE "upsert"
      [] p = "upsert" -> "parents"
      [] p = "parents" -> "complete"
      [] p = "await_gather" -> "complete"
      [] p = "complete" -> "handler"

\* NextPc with chunking moved in front of the correction
NextPcSwapped(p, o) ==
    CASE p = "extract" -> "normalize"
      [] p = "normalize" -> "persist"
      [] p = "persist" -> "chunk"
      [] p = "chunk" -> "correct"
      [] p = "correct" -> "ensure"
      [] p = "ensure" -> "vector_store"
      [] p = "ensure_create" -> "vector_store"
      [] p = "vector_store" -> IF o = "async" THEN "gather" ELSE "upsert"
      [] p = "upsert" -> "parents"
      [] p = "parents" -> "complete"
      [] p = "await_gather" -> "complete"
      [] p = "complete" -> "done"

\* the position a run moves to when the stage at position p has returned
NextPc(p, o) ==
    CASE p = "extract" -> "normalize"
      [] p = "normalize" -> "persist"
      [] p = "persist" -> "correct"
      [] p = "correct" -> "chunk"
      [] p = "chunk" -> "ensure"
      [] p = "ensure" -> "vector_store"
      [] p = "ensure_create" -> "vector_store"
      [] p = "vector_store" -> IF o = "async" THEN "gather" ELSE "upsert"
      [] p = "upsert" -> "parents"
      [] p = "parents" -> "complete"
      [] p = "await_gather" -> "complete"
      [] p = "complete" -> "done"

\* get_text_splitters() of the orchestrators, scaled down
ParentSize == 4
ParentOverlap == 1
ChildSize == 2
ChildOverlap == 1

\* the texts the correction call may return
CorrectedTexts == {<<>>, <<"a", "b", " ", "b", "a">>}

chunk_text_hierarchically(corrected_text) ==
    LET sp == get_splitters(ParentSize, ParentOverlap, ChildSize, ChildOverlap)
    IN  chunk_text_hierarchical(corrected_text, sp[1], sp[2])

Range(f) == {f[i] : i \in DOMAIN f}

(***************************************************************************)
(* State.                                                                  *)
(***************************************************************************)
VARIABLES
    rec,         \* metadata store: doc id -> record, or NoRec
    upl,         \* outcome of upload_document per doc id
    orch,        \* the process_document variant the upload route schedules
    pc,          \* position of a doc's run
    started,     \* stages the run has started
    returned,    \* stages that have returned without raising
    err,         \* the stage whose exception reached the except block
    propagated,  \* the exception that left process_document: [exc, cause]
    failWrite,   \* outcome of the except block's write of failed
    corrected,   \* the run's corrected_text
    task,        \* async run: state of the two awaitables given to gather
    indexExists, \* whether the child index exists in the vector service
    vecIndex,    \* child chunks in the vector index
    parentColl,  \* records of parent_doc_chunk_collection
    resp,        \* the last response of get_document_status
    ck_in,       \* SpecChunk: the call's arguments [text, parent, child]
    ck_out,      \* SpecChunk: <<>>, or <<r>> with r the call's result
    qry,         \* SpecQuery: the query_documents request being served
    sm,          \* SpecSummarize: the last response of summarize_uploaded_document
    md,          \* SpecRecord: one metadata file with its timestamps, and the clock
    sg,          \* SpecSingleton: a module-level handle and the threads calling its getter
    nz           \* SpecClean: the normalizer's input and, once called, its outputs

runVars == <<pc, started, returned, err, propagated, failWrite, corrected, task>>
storeVars == <<indexExists, vecIndex, parentColl>>
pipeVars == <<rec, upl, orch, runVars, storeVars, resp>>
chunkVars == <<ck_in, ck_out>>
otherVars == <<sm, md, sg, nz>>
vars == <<pipeVars, chunkVars, qry, otherVars>>

NoExc == [exc |-> None, cause |-> None]
NoResp == [doc_id |-> 0, status |-> None, held |-> FALSE, finished |-> FALSE]
NoTask == [vector |-> "idle", mongo |-> "idle", first |-> None]

\* QueryResponse(answer, query, context_used), or the HTTP 500 of the handler
NoQResp == [code |-> 0, answer |-> None, context_used |-> FALSE]

QueryIdle ==
    qry = [pc |-> "idle", top_k |-> 1, calls |-> <<>>,
           formatted_query |-> None, raised |-> {}, found |-> 0,
           parent_ids |-> {}, ranked |-> <<>>, context |-> <<>>,
           resp |-> NoQResp]

\* SummarizeResponse(summary, ...) or the HTTPException of the handler, with
\* whether the request called summarize_with_gemini
NoSumResp == [doc_id |-> 0, code |-> 0, detail |-> None, summary |-> None,
              generated |-> FALSE]

NoCall == [op |-> None, at |-> 0, returned |-> FALSE, status |-> None,
           processed_text |-> None, cleaned_text |-> None, summary |-> None]

RecordIdle == md = [file |-> NoRec, clock |-> 0, call |-> NoCall]

MaxCallers == 3
Callers == 1..MaxCallers

SingletonIdle ==
    sg = [handle |-> "llm", api_key |-> TRUE, global |-> 0, built |-> 0,
          pc |-> [t \in Callers |-> "idle"], got |-> [t \in Callers |-> 0]]

CleanIdle == nz = [text |-> <<>>, fn |-> None, out |-> <<>>]

OtherIdle ==
    /\ sm = NoSumResp
    /\ RecordIdle
    /\ SingletonIdle
    /\ CleanIdle

PipeIdle ==
    /\ rec = [d \in Docs |-> NoRec]
    /\ upl = [d \in Docs |-> "none"]
    /\ pc = [d \in Docs |-> "idle"]
    /\ started = [d \in Docs |-> {}]
    /\ returned = [d \in Docs |-> {}]
    /\ err = [d \in Docs |-> None]
    /\ propagated = [d \in Docs |-> NoExc]
    /\ failWrite = [d \in Docs |-> "none"]
    /\ corrected = [d \in Docs |-> <<>>]
    /\ task = [d \in Docs |-> NoTask]
    /\ indexExists = FALSE
    /\ vecIndex = {}
    /\ parentColl = {}
    /\ resp = NoResp

(***************************************************************************)
(* SpecChunk: chunk_text_hierarchical applied to every text of at most     *)
(* MaxLen characters and every pair of splitters with                      *)
(* child size < parent size <= MaxParentSize.                              *)
(***************************************************************************)
SplitterPairs ==
    {get_splitters(ps, po, cs, co) :
        ps \in 2..MaxParentSize, po \in 0..MaxParentSize,
        cs \in 1..MaxParentSize, co \in 0..MaxParentSize}

ValidSplitterPairs ==
    {p \in SplitterPairs :
        /\ p[1].chunk_overlap < p[1].chunk_size
        /\ p[2].chunk_overlap < p[2].chunk_size
        /\ p[2].chunk_size < p[1].chunk_size}

ChunkIdle ==
    /\ ck_in = [text |-> <<>>, parent |-> Splitter(2, 0), child |-> Splitter(1, 0)]
    /\ ck_out = <<>>

\* documents of 3000 characters: words of p - 1 letters separated by one
\* space, and paragraphs of p - 2 letters separated by a blank line (the last
\* word or paragraph takes the remaining characters)
WordsDoc(p) ==
    [i \in 1..3000 |-> IF i % p = 0 /\ i < 3000 THEN " " ELSE "a"]

ParagraphsDoc(p) ==
    [i \in 1..3000 |-> IF i % p \in {p - 1, 0} /\ i < 3000 THEN NL ELSE "a"]

ScenarioDocs == {WordsDoc(50), WordsDoc(100), ParagraphsDoc(500)}

\* get_splitters() with its default sizes
DefaultSplitters == get_splitters(1500, 200, 500, 100)

InitChunk ==
    /\ ck_in \in {[text |-> t, parent |-> p[1], child |-> p[2]] :
                     t \in Texts, p \in ValidSplitterPairs}
                 \cup {[text |-> t, parent |-> DefaultSplitters[1],
                        child |-> DefaultSplitters[2]] : t \in ScenarioDocs}
    /\ ck_out = <<>>
    /\ orch = "async"
    /\ PipeIdle
    /\ QueryIdle
    /\ OtherIdle

ChunkCall ==
    /\ ck_out = <<>>
    /\ ck_out' = <<chunk_text_hierarchical(ck_in.text, ck_in.parent, ck_in.child)>>
    /\ UNCHANGED <<ck_in, pipeVars, qry, otherVars>>

NextChunk == ChunkCall

SpecChunk == InitChunk /\ [][NextChunk]_vars

(***************************************************************************)
(* Stores written by a run.  A stored chunk carries the identity the       *)
(* store assigns on insert (MongoDB's _id, the vector id): modelled as the *)
(* pair <<inserting run, position>>.  No lookup of the code reads it.      *)
(***************************************************************************)
\* the chunk stage's result for each text the correction call may return
Chunked == [t \in CorrectedTexts |-> chunk_text_hierarchically(t)]

ParentChunks(d) == Chunked[corrected[d]].parents
ChildChunks(d) == Chunked[corrected[d]].children

\* save_parent_chunks: the documents insert_many adds
save_parent_chunks(d, chunks) ==
    {[parent_id |-> chunks[i].parent_id, text |-> chunks[i].text, id |-> <<d, i>>] :
        i \in DOMAIN chunks}

\* add_documents_to_vector_store: the vectors add_documents upserts, text
\* and parent_id carried as metadata
add_documents_to_vector_store(d, documents) ==
    {[parent_id |-> documents[i].parent_id, text |-> documents[i].text, id |-> <<d, i>>] :
        i \in DOMAIN documents}

(***************************************************************************)
(* upload_document: save the file, write the record with status            *)
(* processing, then schedule process_document as a background task.        *)
(* Document ids are fresh (uuid4): the next unused id is taken.            *)
(***************************************************************************)
FreshId(d) == upl[d] = "none" /\ \A e \in Docs : e < d => upl[e] # "none"

\* what upload_document leaves behind: the record and the scheduled run
UploadEffect(d, saved, wrote) ==
    IF saved /\ wrote
    THEN /\ rec' = [rec EXCEPT ![d] =
                      save_document_metadata(d, "a.pdf", "uploads/a.pdf", "processing")]
         /\ upl' = [upl EXCEPT ![d] = "accepted"]
         /\ pc' = [pc EXCEPT ![d] = "extract"]
    ELSE /\ upl' = [upl EXCEPT ![d] = "error"]
         /\ UNCHANGED <<rec, pc>>

upload_document(d) ==
    /\ FreshId(d)
    /\ \E saved \in BOOLEAN, wrote \in BOOLEAN : UploadEffect(d, saved, wrote)
    /\ UNCHANGED <<orch, started, returned, err, propagated, failWrite, corrected,
                   task, storeVars, resp, chunkVars, qry, otherVars>>

(***************************************************************************)
(* get_document_status: the status of the record, or 404.  The response    *)
(* is kept with two facts of the moment of the call: whether upload had    *)
(* returned this doc_id to the caller, and whether its run had finished.   *)
(***************************************************************************)
get_document_status(d) ==
    /\ resp' = [doc_id |-> d,
                status |-> IF rec[d] = NoRec THEN "404" ELSE rec[d].status,
                held |-> upl[d] = "accepted",
                finished |-> pc[d] = "done"]
    /\ UNCHANGED <<rec, upl, orch, runVars, storeVars, chunkVars, qry, otherVars>>

(***************************************************************************)
(* process_document.  A stage either returns, and the run moves on, or     *)
(* raises, and the except block runs.                                      *)
(***************************************************************************)
Returns(d, s) ==
    /\ started' = [started EXCEPT ![d] = @ \cup {s}]
    /\ returned' = [returned EXCEPT ![d] = @ \cup {s}]
    /\ pc' = [pc EXCEPT ![d] = NextPc(pc[d], orch)]

\* the exception that leaves the async except block: the original one when
\* the write of failed returned (bare raise), else the write's own exception
AsyncPropagated(s, ok) ==
    IF ok THEN [exc |-> s, cause |-> None]
    ELSE [exc |-> "status_write", cause |-> None]

\* the exception that leaves the sync except block: the write of failed is
\* wrapped in try/except-pass, then RuntimeError(...) from e
SyncPropagated(s, ok) == [exc |-> "RuntimeError", cause |-> s]

\* update_document_status(doc_id, "failed") of the except block, made on
\* the record r that the failed stage left; w: the outcome of its write
WriteFailed(d, r, w) ==
    /\ rec' = [rec EXCEPT ![d] =
                 CASE w = "ok" -> update_document_status(r, d, "failed", None, None)
                   [] w = "unchanged" -> r
                   [] w = "corrupt" -> NoRec]
    /\ failWrite' = [failWrite EXCEPT ![d] = IF w = "ok" THEN "ok" ELSE "raised"]

\* the except block of the async orchestrator: it runs without suspending
AsyncExcept(d, s, r) ==
    \E w \in WriteOutcomes :
        /\ WriteFailed(d, r, w)
        /\ propagated' = [propagated EXCEPT ![d] = AsyncPropagated(s, w = "ok")]
        /\ pc' = [pc EXCEPT ![d] = "done"]

\* Raises with the exception swallowed and the run carrying on
RaisesSwallowed(d, s, r) ==
    /\ started' = [started EXCEPT ![d] = @ \cup {s}]
    /\ err' = [err EXCEPT ![d] = s]
    /\ pc' = [pc EXCEPT ![d] = NextPc(pc[d], orch)]
    /\ rec' = [rec EXCEPT ![d] = r]
    /\ UNCHANGED <<returned, propagated, failWrite>>

\* Raises with the run staying at the stage that raised, to call it again
RaisesRetry(d, s, r) ==
    /\ started' = [started EXCEPT ![d] = @ \cup {s}]
    /\ err' = [err EXCEPT ![d] = s]
    /\ rec' = [rec EXCEPT ![d] = r]
    /\ UNCHANGED <<pc, returned, propagated, failWrite>>

\* stage s raised, leaving the record r: control enters the except block
Raises(d, s, r) ==
    /\ started' = [started EXCEPT ![d] = @ \cup {s}]
    /\ err' = [err EXCEPT ![d] = s]
    /\ UNCHANGED returned
    /\ IF orch = "async"
       THEN AsyncExcept(d, s, r)
       ELSE /\ pc' = [pc EXCEPT ![d] = "handler"]
            /\ rec' = [rec EXCEPT ![d] = r]
            /\ UNCHANGED <<propagated, failWrite>>

\* the except block of the sync orchestrator
handler(d) ==
    /\ pc[d] = "handler"
    /\ \E w \in WriteOutcomes :
           /\ WriteFailed(d, rec[d], w)
           /\ propagated' = [propagated EXCEPT ![d] = SyncPropagated(err[d], w = "ok")]
    /\ pc' = [pc EXCEPT ![d] = "done"]
    /\ UNCHANGED <<upl, orch, started, returned, err, corrected, task,
                   storeVars, resp, chunkVars, qry, otherVars>>

\* a stage that touches nothing but the run: extract_text_with_ocr,
\* clean_ocr_text, get_embedding_model / get_vector_store
PlainStage(d, s) ==
    /\ pc[d] = s
    /\ \/ Returns(d, s) /\ UNCHANGED <<rec, err, propagated, failWrite>>
       \/ Raises(d, s, rec[d])
    /\ UNCHANGED <<upl, orch, corrected, task, storeVars, resp, chunkVars, qry, otherVars>>

extract(d) == PlainStage(d, "extract")

normalize(d) == PlainStage(d, "normalize")

\* update_document_status(doc_id, "processing", extracted_text, cleaned_text)
persist_texts(d, extracted_text, cleaned_text) ==
    /\ pc[d] = "persist"
    /\ \/ /\ rec' = [rec EXCEPT ![d] =
                       update_document_status(rec[d], d, "processing",
                                              extracted_text, cleaned_text)]
          /\ Returns(d, "persist")
          /\ UNCHANGED <<err, propagated, failWrite>>
       \/ \E r \in FailedWrites(rec[d]) : Raises(d, "persist", r)
    /\ UNCHANGED <<upl, orch, corrected, task, storeVars, resp, chunkVars, qry, otherVars>>

\* the stage for a document whose pages hold text
persist(d) == persist_texts(d, "raw", "cleaned")

\* correct_ocr_text: the generation service returns some text
correct(d) ==
    /\ pc[d] = "correct"
    /\ \/ \E t \in CorrectedTexts :
              /\ corrected' = [corrected EXCEPT ![d] = t]
              /\ Returns(d, "correct")
              /\ UNCHANGED <<rec, err, propagated, failWrite>>
       \/ Raises(d, "correct", rec[d]) /\ UNCHANGED corrected
    /\ UNCHANGED <<upl, orch, task, storeVars, resp, chunkVars, qry, otherVars>>

chunk(d) == PlainStage(d, "chunk")

\* create_index_if_not_exists: pc.has_index(index_name) ...
ensure(d) ==
    /\ pc[d] = "ensure"
    /\ \/ /\ indexExists
          /\ Returns(d, "ensure")
          /\ UNCHANGED <<rec, err, propagated, failWrite>>
       \/ /\ ~indexExists
          /\ started' = [started EXCEPT ![d] = @ \cup {"ensure"}]
          /\ pc' = [pc EXCEPT ![d] = "ensure_create"]
          /\ UNCHANGED <<rec, returned, err, propagated, failWrite>>
       \/ Raises(d, "ensure", rec[d])
    /\ UNCHANGED <<upl, orch, corrected, task, storeVars, resp, chunkVars, qry, otherVars>>

\* ... then pc.create_index(...), which the service rejects for a name that
\* exists by now
ensure_create(d) ==
    /\ pc[d] = "ensure_create"
    /\ \/ /\ ~indexExists
          /\ indexExists' = TRUE
          /\ Returns(d, "ensure")
          /\ UNCHANGED <<rec, err, propagated, failWrite>>
       \/ Raises(d, "ensure", rec[d]) /\ UNCHANGED indexExists
    /\ UNCHANGED <<upl, orch, corrected, task, vecIndex, parentColl, resp, chunkVars, qry, otherVars>>

vector_store(d) == PlainStage(d, "vector_store")

\* insert_many rejects an empty list of documents
InsertAccepts(chunks) == chunks # <<>>

(***************************************************************************)
(* Sync orchestrator: the upsert, then the insert, then completed.         *)
(***************************************************************************)
upsert(d) ==
    /\ pc[d] = "upsert"
    /\ \/ /\ vecIndex' = vecIndex \cup add_documents_to_vector_store(d, ChildChunks(d))
          /\ Returns(d, "upsert")
          /\ UNCHANGED <<rec, err, propagated, failWrite>>
       \/ Raises(d, "upsert", rec[d]) /\ UNCHANGED vecIndex
    /\ UNCHANGED <<upl, orch, corrected, task, indexExists, parentColl, resp, chunkVars, qry, otherVars>>

parents(d) ==
    /\ pc[d] = "parents"
    /\ \/ /\ InsertAccepts(ParentChunks(d))
          /\ parentColl' = parentColl \cup save_parent_chunks(d, ParentChunks(d))
          /\ Returns(d, "parents")
          /\ UNCHANGED <<rec, err, propagated, failWrite>>
       \/ Raises(d, "parents", rec[d]) /\ UNCHANGED parentColl
    /\ UNCHANGED <<upl, orch, corrected, task, indexExists, vecIndex, resp, chunkVars, qry, otherVars>>

(***************************************************************************)
(* Async orchestrator: asyncio.gather(task_vector, task_mongo).  The two   *)
(* awaitables run on their own; gather hands the first exception to the    *)
(* run and does not cancel the other awaitable.                            *)
(***************************************************************************)
gather(d) ==
    /\ pc[d] = "gather"
    /\ started' = [started EXCEPT ![d] = @ \cup {"upsert", "parents"}]
    /\ task' = [task EXCEPT ![d] = [vector |-> "running", mongo |-> "running",
                                    first |-> None]]
    /\ pc' = [pc EXCEPT ![d] = "await_gather"]
    /\ UNCHANGED <<rec, upl, orch, returned, err, propagated, failWrite, corrected,
                   storeVars, resp, chunkVars, qry, otherVars>>

FirstExc(t, s) == IF t.first = None THEN s ELSE t.first

task_vector(d) ==
    /\ task[d].vector = "running"
    /\ \/ /\ vecIndex' = vecIndex \cup add_documents_to_vector_store(d, ChildChunks(d))
          /\ task' = [task EXCEPT ![d].vector = "ok"]
          /\ returned' = [returned EXCEPT ![d] = @ \cup {"upsert"}]
       \/ /\ task' = [task EXCEPT ![d].vector = "raised",
                                  ![d].first = FirstExc(task[d], "upsert")]
          /\ UNCHANGED <<vecIndex, returned>>
    /\ UNCHANGED <<rec, upl, orch, pc, started, err, propagated, failWrite, corrected,
                   indexExists, parentColl, resp, chunkVars, qry, otherVars>>

task_mongo(d) ==
    /\ task[d].mongo = "running"
    /\ \/ /\ InsertAccepts(ParentChunks(d))
          /\ parentColl' = parentColl \cup save_parent_chunks(d, ParentChunks(d))
          /\ task' = [task EXCEPT ![d].mongo = "ok"]
          /\ returned' = [returned EXCEPT ![d] = @ \cup {"parents"}]
       \/ /\ task' = [task EXCEPT ![d].mongo = "raised",
                                  ![d].first = FirstExc(task[d], "parents")]
          /\ UNCHANGED <<parentColl, returned>>
    /\ UNCHANGED <<rec, upl, orch, pc, started, err, propagated, failWrite, corrected,
                   indexExists, vecIndex, resp, chunkVars, qry, otherVars>>

\* GatherReturned as a wait for the first awaitable only
GatherFirstCompleted(t) == t.vector = "ok" \/ t.mongo = "ok"

\* await asyncio.gather(...) returns once both awaitables have returned
GatherReturned(t) == t.vector = "ok" /\ t.mongo = "ok"

await_gather(d) ==
    /\ pc[d] = "await_gather"
    /\ \/ /\ task[d].first # None
          /\ Raises(d, task[d].first, rec[d])
       \/ /\ task[d].first = None
          /\ GatherReturned(task[d])
          /\ pc' = [pc EXCEPT ![d] = NextPc(pc[d], orch)]
          /\ UNCHANGED <<rec, started, returned, err, propagated, failWrite>>
    /\ UNCHANGED <<upl, orch, corrected, task, storeVars, resp, chunkVars, qry, otherVars>>

\* update_document_status(doc_id, "completed")
complete(d) ==
    /\ pc[d] = "complete"
    /\ \/ /\ rec' = [rec EXCEPT ![d] =
                       update_document_status(rec[d], d, "completed", None, None)]
          /\ Returns(d, "complete")
          /\ UNCHANGED <<err, propagated, failWrite>>
       \/ \E r \in FailedWrites(rec[d]) : Raises(d, "complete", r)
    /\ UNCHANGED <<upl, orch, corrected, task, storeVars, resp, chunkVars, qry, otherVars>>

Init ==
    /\ orch \in Orchestrators
    /\ PipeIdle
    /\ ChunkIdle
    /\ QueryIdle
    /\ OtherIdle

Next ==
    \E d \in Docs :
        \/ upload_document(d)
        \/ extract(d)
        \/ normalize(d)
        \/ persist(d)
        \/ correct(d)
        \/ chunk(d)
        \/ ensure(d)
        \/ ensure_create(d)
        \/ vector_store(d)
        \/ upsert(d)
        \/ parents(d)
        \/ gather(d)
        \/ task_vector(d)
        \/ task_mongo(d)
        \/ await_gather(d)
        \/ complete(d)
        \/ handler(d)

Spec == Init /\ [][Next]_vars

(***************************************************************************)
(* delete_document_metadata: unlinks the metadata file of doc_id if it     *)
(* exists (returns True), and does nothing otherwise (returns False).  No  *)
(* route calls it; it is an operation of the metadata service that a       *)
(* caller may issue at any moment, also while the run of doc_id is in      *)
(* flight.                                                                 *)
(***************************************************************************)
delete_document_metadata(d) ==
    /\ rec[d] # NoRec
    /\ rec' = [rec EXCEPT ![d] = NoRec]
    /\ UNCHANGED <<upl, orch, runVars, storeVars, resp, chunkVars, qry, otherVars>>

NextDelete ==
    \/ Next
    \/ \E d \in Docs : delete_document_metadata(d)

SpecDelete == Init /\ [][NextDelete]_vars

(***************************************************************************)
(* SpecStatus: the pipeline together with a client that polls              *)
(* get_document_status.  RunStep(d) is any step of the run of d; LiveStatus *)
(* adds that a run that can take a step eventually does (every external    *)
(* call returns or raises).                                                *)
(***************************************************************************)
RunStep(d) ==
    \/ extract(d) \/ normalize(d) \/ persist(d) \/ correct(d) \/ chunk(d)
    \/ ensure(d) \/ ensure_create(d) \/ vector_store(d)
    \/ upsert(d) \/ parents(d)
    \/ gather(d) \/ task_vector(d) \/ task_mongo(d) \/ await_gather(d)
    \/ complete(d) \/ handler(d)

NextStatus ==
    \/ Next
    \/ \E d \in Docs : get_document_status(d)

SpecStatus == Init /\ [][NextStatus]_vars

LiveStatus == SpecStatus /\ \A d \in Docs : WF_vars(RunStep(d))

(***************************************************************************)
(* summarize_uploaded_document.  SpecSummarize runs the summarize route    *)
(* next to the pipeline.  The handler has no suspension point (the         *)
(* metadata functions never await, summarize_with_gemini is a blocking     *)
(* call), so a request is one step of the event loop.  OCR may find no     *)
(* text on the pages: persist_empty is the persist stage of such a run.    *)
(***************************************************************************)
persist_empty(d) == persist_texts(d, "", "")

\* Python truth of an Optional[str]
Truthy(x) == x # None /\ x # ""

\* get_document_text: cleaned_text or processed_text
get_document_text(metadata) ==
    IF metadata = NoRec THEN None
    ELSE IF Truthy(metadata.cleaned_text) THEN metadata.cleaned_text
    ELSE metadata.processed_text

\* save_document_summary: the record it writes
save_document_summary(metadata, summary) == [metadata EXCEPT !.summary = summary]

\* summarize_with_gemini returns response.text, or None after printing the
\* exception of the generation call
SummaryReplies == {"summary", "", None}

IsCompletedAlways(metadata) == TRUE

\* status check of the handler
IsCompleted(metadata) == metadata.status = "completed"

HasSummaryNever(metadata) == FALSE

\* cached-summary check of the handler
HasSummary(metadata) == Truthy(metadata.summary)

SumResp(d, code, detail, summary, generated) ==
    [doc_id |-> d, code |-> code, detail |-> detail, summary |-> summary,
     generated |-> generated]

\* the request generates: summarize_with_gemini, save_document_summary, then
\* SummarizeResponse(summary, len(text), len(summary))
Generate(d, reply, w) ==
    /\ rec' = [rec EXCEPT ![d] =
                 CASE w = "ok" -> save_document_summary(rec[d], reply)
                   [] w = "unchanged" -> rec[d]
                   [] w = "corrupt" -> NoRec]
    /\ sm' = IF w = "ok" /\ reply # None
             THEN SumResp(d, 200, None, reply, TRUE)
             ELSE SumResp(d, 500, "Failed to summarize document", None, TRUE)

summarize_uploaded_document(d) ==
    /\ LET metadata == rec[d]
           text == get_document_text(metadata)
       IN  IF metadata = NoRec
           THEN sm' = SumResp(d, 404, "not found", None, FALSE) /\ UNCHANGED rec
           ELSE IF ~IsCompleted(metadata)
           THEN sm' = SumResp(d, 400, "still processing", None, FALSE) /\ UNCHANGED rec
           ELSE IF ~Truthy(text)
           THEN sm' = SumResp(d, 400, "text not available", None, FALSE) /\ UNCHANGED rec
           ELSE IF HasSummary(metadata)
           THEN sm' = SumResp(d, 200, None, metadata.summary, FALSE) /\ UNCHANGED rec
           ELSE \E reply \in SummaryReplies, w \in WriteOutcomes : Generate(d, reply, w)
    /\ UNCHANGED <<upl, orch, runVars, storeVars, resp, chunkVars, qry, md, sg, nz>>

NextSummarize ==
    \/ Next
    \/ \E d \in Docs : persist_empty(d)
    \/ \E d \in Docs : summarize_uploaded_document(d)

SpecSummarize == Init /\ [][NextSummarize]_vars

(***************************************************************************)
(* The metadata functions with their timestamps.  SpecRecord applies       *)
(* save_document_metadata, update_document_status and                      *)
(* save_document_summary to one metadata file; datetime.utcnow() reads a   *)
(* clock that ticks between the calls.                                     *)
(***************************************************************************)
MaxClock == 2

Times(m, created_at, updated_at) ==
    [doc_id |-> m.doc_id, filename |-> m.filename, filepath |-> m.filepath,
     status |-> m.status, processed_text |-> m.processed_text,
     cleaned_text |-> m.cleaned_text, summary |-> m.summary,
     created_at |-> created_at, updated_at |-> updated_at]

\* save_document_metadata at time now
save_document_metadata_at(doc_id, filename, filepath, status, now) ==
    Times(save_document_metadata(doc_id, filename, filepath, status), now, now)

\* update_document_status at time now; m is the loaded file
update_document_status_at(m, doc_id, status, processed_text, cleaned_text, now) ==
    LET metadata == update_document_status(m, doc_id, status, processed_text, cleaned_text)
    IN  Times(metadata, IF m = NoRec THEN now ELSE m.created_at, now)

\* save_document_summary at time now; m is the loaded file, not NoRec
save_document_summary_at(m, summary, now) ==
    Times(save_document_summary(m, summary), m.created_at, now)

\* _save_metadata(doc_id, metadata) with outcome w
Written(metadata, w) ==
    CASE w = "ok" -> metadata
      [] w = "unchanged" -> md.file
      [] w = "corrupt" -> NoRec

Call(op, w, status, processed_text, cleaned_text, summary) ==
    [op |-> op, at |-> md.clock, returned |-> w = "ok", status |-> status,
     processed_text |-> processed_text, cleaned_text |-> cleaned_text,
     summary |-> summary]

md_tick ==
    /\ md.clock < MaxClock
    /\ md' = [md EXCEPT !.clock = @ + 1]
    /\ UNCHANGED <<pipeVars, chunkVars, qry, sm, sg, nz>>

md_save_document_metadata ==
    /\ md.file = NoRec
    /\ \E w \in WriteOutcomes :
         md' = [md EXCEPT
                  !.file = Written(save_document_metadata_at(
                                      1, "a.pdf", "uploads/a.pdf", "processing",
                                      md.clock), w),
                  !.call = Call("save_document_metadata", w, "processing",
                                None, None, None)]
    /\ UNCHANGED <<pipeVars, chunkVars, qry, sm, sg, nz>>

md_update_document_status ==
    /\ \E w \in WriteOutcomes, status \in Statuses,
          processed_text \in {None, "raw", "raw2"},
          cleaned_text \in {None, "cleaned"} :
         md' = [md EXCEPT
                  !.file = Written(update_document_status_at(
                                      md.file, 1, status, processed_text,
                                      cleaned_text, md.clock), w),
                  !.call = Call("update_document_status", w, status,
                                processed_text, cleaned_text, None)]
    /\ UNCHANGED <<pipeVars, chunkVars, qry, sm, sg, nz>>

md_save_document_summary ==
    /\ \E w \in WriteOutcomes, summary \in {"summary", "summary2"} :
         md' = IF md.file = NoRec
               THEN [md EXCEPT !.call = Call("save_document_summary", "ok", None,
                                             None, None, summary)]
               ELSE [md EXCEPT
                       !.file = Written(save_document_summary_at(
                                           md.file, summary, md.clock), w),
                       !.call = Call("save_document_summary", w, None, None,
                                     None, summary)]
    /\ UNCHANGED <<pipeVars, chunkVars, qry, sm, sg, nz>>

NextRecord ==
    \/ md_tick
    \/ md_save_document_metadata
    \/ md_update_document_status
    \/ md_save_document_summary

SpecRecord == Init /\ [][NextRecord]_vars

\* delete_document_metadata: unlink the file if it exists
md_delete_document_metadata ==
    /\ md' = [md EXCEPT !.file = NoRec,
                        !.call = Call("delete_document_metadata", "ok", None,
                                      None, None, None)]
    /\ UNCHANGED <<pipeVars, chunkVars, qry, sm, sg, nz>>

NextRecordDelete ==
    \/ NextRecord
    \/ md_delete_document_metadata

SpecRecordDelete == Init /\ [][NextRecordDelete]_vars

(***************************************************************************)
(* The module-level handles: get_embedding_model, get_pinecone_client and  *)
(* get_llm_client.  Each getter tests the global for None, constructs and  *)
(* assigns the client if so, and returns the global.  The orchestrator     *)
(* runs the getters in worker threads, so calls interleave between these   *)
(* steps.  Instances are numbered in the order of construction; 0 is None. *)
(***************************************************************************)
Handles == {"embedding", "pinecone", "llm"}

InitSingleton ==
    /\ sg \in {[handle |-> h, api_key |-> k, global |-> 0, built |-> 0,
                 pc |-> [t \in Callers |-> "idle"],
                 got |-> [t \in Callers |-> 0]] :
                   h \in Handles, k \in BOOLEAN}
    /\ sg.handle # "pinecone" => sg.api_key
    /\ orch = "async"
    /\ PipeIdle
    /\ ChunkIdle
    /\ QueryIdle
    /\ sm = NoSumResp
    /\ RecordIdle
    /\ CleanIdle

\* a thread calls the getter
sg_call(t) ==
    /\ sg.pc[t] = "idle"
    /\ sg' = [sg EXCEPT !.pc[t] = "test"]
    /\ UNCHANGED <<pipeVars, chunkVars, qry, sm, md, nz>>

\* if _client is None
sg_test(t) ==
    /\ sg.pc[t] = "test"
    /\ sg' = [sg EXCEPT !.pc[t] = IF sg.global = 0 THEN "construct" ELSE "return"]
    /\ UNCHANGED <<pipeVars, chunkVars, qry, sm, md, nz>>

\* _client = Client(...); get_pinecone_client raises without PINECONE_API_KEY
sg_construct(t) ==
    /\ sg.pc[t] = "construct"
    /\ sg' = IF sg.api_key
             THEN [sg EXCEPT !.built = @ + 1, !.global = sg.built + 1,
                             !.pc[t] = "return"]
             ELSE [sg EXCEPT !.pc[t] = "raised"]
    /\ UNCHANGED <<pipeVars, chunkVars, qry, sm, md, nz>>

\* return _client
sg_return(t) ==
    /\ sg.pc[t] = "return"
    /\ sg' = [sg EXCEPT !.got[t] = sg.global, !.pc[t] = "done"]
    /\ UNCHANGED <<pipeVars, chunkVars, qry, sm, md, nz>>

NextSingleton ==
    \E t \in Callers : sg_call(t) \/ sg_test(t) \/ sg_construct(t) \/ sg_return(t)

SpecSingleton == InitSingleton /\ [][NextSingleton]_vars

(***************************************************************************)
(* The normalizer: clean_ocr_text (text_cleaning_service.py) and           *)
(* clean_ocr_for_chunking (cleaning_service.py, chunking_service.py).      *)
(* Each re.sub is computed as the regex engine computes it: leftmost       *)
(* match, greedy quantifiers, the scan resuming behind a match.  The       *)
(* typographic quotes U+201C, U+201D and U+2019 are the characters LDQUO,  *)
(* RDQUO and RSQUO.  SpecClean calls a normalizer on a text and then on    *)
(* its own result.                                                         *)
(***************************************************************************)
MaxCleanLen == 5

LDQUO == "U+201C"
RDQUO == "U+201D"
RSQUO == "U+2019"

Digits == {"0", "1", "2", "3", "4", "5", "6", "7", "8", "9"}
Lower == {"a", "b", "c", "d", "e", "f", "g", "h", "i", "j", "k", "l", "m",
          "n", "o", "p", "q", "r", "s", "t", "u", "v", "w", "x", "y", "z"}
Upper == {"A", "B", "C", "D", "E", "F", "G", "H", "I", "J", "K", "L", "M",
          "N", "O", "P", "Q", "R", "S", "T", "U", "V", "W", "X", "Y", "Z"}

\* \w
WordChars == Lower \cup Upper \cup Digits \cup {"_"}

\* [\dIVXLCDMivxlcdm]
NumeralChars ==
    Digits \cup {"I", "V", "X", "L", "C", "D", "M", "i", "v", "x", "l", "c", "d", "m"}

\* [.\?!]
SentenceEnd == {".", "?", "!"}

\* the end of the longest run of characters of cls that starts at i: the
\* position behind the run (i itself when the run is empty)
RECURSIVE RunEnd(_, _, _)
RunEnd(text, i, cls) ==
    IF i <= Len(text) /\ text[i] \in cls THEN RunEnd(text, i + 1, cls) ELSE i

\* (\w+)-\s*\n\s*(\w+) matched at i: <<j, k, l>> with the first word in
\* [i, j), the hyphen and the whitespace in [j, k), the second word in
\* [k, l); <<>> when there is no match at i
HyphenMatch(text, i) ==
    LET j == RunEnd(text, i, WordChars)
        k == RunEnd(text, j + 1, Whitespace)
        l == RunEnd(text, k, WordChars)
    IN  IF /\ j > i
           /\ j <= Len(text) /\ text[j] = "-"
           /\ \E n \in (j + 1)..(k - 1) : text[n] = NL
           /\ l > k
        THEN <<j, k, l>> ELSE <<>>

\* re.sub(r'(\w+)-\s*\n\s*(\w+)', r'\1\2', text), scanning from i
RECURSIVE JoinFrom(_, _, _)
JoinFrom(text, i, acc) ==
    IF i > Len(text) THEN acc
    ELSE LET m == HyphenMatch(text, i)
         IN  IF m = <<>>
             THEN JoinFrom(text, i + 1, Append(acc, text[i]))
             ELSE JoinFrom(text, m[3],
                           acc \o SubSeq(text, i, m[1] - 1)
                               \o SubSeq(text, m[2], m[3] - 1))

join_hyphenated(text) == JoinFrom(text, 1, <<>>)

\* re.sub(r'(?<![.\?!])\n(?!\n)', ' ', text)
join_lines(text) ==
    [i \in 1..Len(text) |->
        IF /\ text[i] = NL
           /\ ~(i > 1 /\ text[i - 1] \in SentenceEnd)
           /\ ~(i < Len(text) /\ text[i + 1] = NL)
        THEN " " ELSE text[i]]

\* ^ and $ under re.MULTILINE
LineStart(text, i) == i = 1 \/ text[i - 1] = NL
LineEnd(text, i) == i = Len(text) + 1 \/ text[i] = NL

\* ^\s*[\dIVXLCDMivxlcdm]+\s*$ matched at i: the position behind the match,
\* or 0 when there is no match at i
NumeralMatch(text, i) ==
    LET a == RunEnd(text, i, Whitespace)
        b == RunEnd(text, a, NumeralChars)
        c == RunEnd(text, b, Whitespace)
        ends == {e \in b..c : LineEnd(text, e)}
    IN  IF LineStart(text, i) /\ b > a /\ ends # {}
        THEN CHOOSE e \in ends : \A f \in ends : f <= e
        ELSE 0

\* a re.sub that removes the first match only
RECURSIVE StripFirstFrom(_, _, _)
StripFirstFrom(text, i, acc) ==
    IF i > Len(text) THEN acc
    ELSE LET e == NumeralMatch(text, i)
         IN  IF e = 0
             THEN StripFirstFrom(text, i + 1, Append(acc, text[i]))
             ELSE acc \o SubSeq(text, e, Len(text))

strip_first_numeral_line(text) == StripFirstFrom(text, 1, <<>>)

\* re.sub(r'^\s*[\dIVXLCDMivxlcdm]+\s*$', '', text, flags=re.MULTILINE),
\* scanning from i
RECURSIVE StripFrom(_, _, _)
StripFrom(text, i, acc) ==
    IF i > Len(text) THEN acc
    ELSE LET e == NumeralMatch(text, i)
         IN  IF e = 0
             THEN StripFrom(text, i + 1, Append(acc, text[i]))
             ELSE StripFrom(text, e, acc)

strip_numeral_lines(text) ==
    StripFrom(text, 1, <<>>)

\* re.sub(r'\s+', ' ', text), scanning from i
RECURSIVE CollapseFrom(_, _, _)
CollapseFrom(text, i, acc) ==
    IF i > Len(text) THEN acc
    ELSE IF text[i] \in Whitespace
    THEN CollapseFrom(text, RunEnd(text, i, Whitespace), Append(acc, " "))
    ELSE CollapseFrom(text, i + 1, Append(acc, text[i]))

normalize_whitespace(text) == strip(CollapseFrom(text, 1, <<>>))

\* text_cleaning_service.py line 35: the three replace calls have the same
\* ASCII character as pattern and as replacement
replace_quotes_ascii(text) == text

\* .replace(LDQUO, '"').replace(RDQUO, '"').replace(RSQUO, "'")
replace_smart_quotes(text) ==
    [i \in 1..Len(text) |->
        IF text[i] \in {LDQUO, RDQUO} THEN "\""
        ELSE IF text[i] = RSQUO THEN "'" ELSE text[i]]

clean_ocr_text(ocr_text) ==
    replace_quotes_ascii(
        normalize_whitespace(strip_numeral_lines(join_lines(join_hyphenated(ocr_text)))))

clean_ocr_for_chunking(ocr_text) ==
    replace_smart_quotes(
        normalize_whitespace(strip_numeral_lines(join_lines(join_hyphenated(ocr_text)))))

Cleaners == {"clean_ocr_text", "clean_ocr_for_chunking"}

Clean(fn, text) ==
    IF fn = "clean_ocr_text" THEN clean_ocr_text(text)
    ELSE clean_ocr_for_chunking(text)

CleanAlphabet == {"a", "I", "-", NL, " ", ".", LDQUO}

RECURSIVE CleanTextsOfLen(_)
CleanTextsOfLen(n) ==
    IF n = 0 THEN {<<>>}
    ELSE {Append(t, c) : t \in CleanTextsOfLen(n - 1), c \in CleanAlphabet}

CleanTexts == UNION {CleanTextsOfLen(n) : n \in 0..MaxCleanLen}

\* 'This is a docu-\nment about contracts. It has II\n page markers.'
ScenarioText ==
    <<"T", "h", "i", "s", " ", "i", "s", " ", "a", " ", "d", "o", "c", "u",
      "-", NL, "m", "e", "n", "t", " ", "a", "b", "o", "u", "t", " ", "c",
      "o", "n", "t", "r", "a", "c", "t", "s", ".", " ", "I", "t", " ", "h",
      "a", "s", " ", "I", "I", NL, " ", "p", "a", "g", "e", " ", "m", "a",
      "r", "k", "e", "r", "s", ".">>

\* 'This is a document about contracts. It has page markers.'
ScenarioClean ==
    <<"T", "h", "i", "s", " ", "i", "s", " ", "a", " ", "d", "o", "c", "u",
      "m", "e", "n", "t", " ", "a", "b", "o", "u", "t", " ", "c", "o", "n",
      "t", "r", "a", "c", "t", "s", ".", " ", "I", "t", " ", "h", "a", "s",
      " ", "p", "a", "g", "e", " ", "m", "a", "r", "k", "e", "r", "s", ".">>

\* longest single-line text of digits and numeral letters
MaxTokenLen == 3

\* single lines of digits, numeral letters and blanks
TokenAlphabet == {"1", "i", "d", " "}

RECURSIVE TokenTextsOfLen(_)
TokenTextsOfLen(n) ==
    IF n = 0 THEN {<<>>}
    ELSE {Append(t, c) : t \in TokenTextsOfLen(n - 1), c \in TokenAlphabet}

TokenTexts == UNION {TokenTextsOfLen(n) : n \in 0..MaxTokenLen}

InitClean ==
    /\ nz \in {[text |-> t, fn |-> None, out |-> <<>>] :
                  t \in CleanTexts \cup TokenTexts \cup {ScenarioText}}
    /\ orch = "async"
    /\ PipeIdle
    /\ ChunkIdle
    /\ QueryIdle
    /\ sm = NoSumResp
    /\ RecordIdle
    /\ SingletonIdle

\* the normalizer is called on the text
nz_clean(fn) ==
    /\ nz.out = <<>>
    /\ nz' = [nz EXCEPT !.fn = fn, !.out = <<Clean(fn, nz.text)>>]
    /\ UNCHANGED <<pipeVars, chunkVars, qry, sm, md, sg>>

\* the same normalizer is called on its result
nz_clean_again ==
    /\ Len(nz.out) = 1
    /\ nz' = [nz EXCEPT !.out = Append(@, Clean(nz.fn, nz.out[1]))]
    /\ UNCHANGED <<pipeVars, chunkVars, qry, sm, md, sg>>

NextClean ==
    \/ \E fn \in Cleaners : nz_clean(fn)
    \/ nz_clean_again

SpecClean == InitClean /\ [][NextClean]_vars

(***************************************************************************)
(* query_documents.  SpecQuery runs the query route next to the pipeline,  *)
(* so that a query sees every content of the two stores that ingestion     *)
(* can leave behind.                                                       *)
(***************************************************************************)
\* largest top_k a request carries
MaxTopK == 2

NoRelevantAnswer == "No relevant information found in the documents."
NoParentIdsAnswer == "Unable to retrieve context from documents."
NoContextAnswer == "No context available to answer the query."

\* generate_llm_response: calls is the record of the calls made so far
generate_llm_response(calls, model) == Append(calls, model)

\* format_query_for_search: one call of the generation service; when it
\* raises, the original query is used and the query goes on
format_query_for_search(calls) == generate_llm_response(calls, "gemini-2.5-pro")

\* format_query_for_search taken as returning the reply of the call always
FormattedQueryOfReply(user_query, ok) == "corrected query"

\* the string format_query_for_search returns: the stripped text of the
\* generation call, or user_query when the call (or the strip) raised
FormattedQuery(user_query, ok) == IF ok THEN "corrected query" ELSE user_query

\* search_child_chunks: the results index.query may return, at most top_k
\* of the vectors of the index
search_child_chunks(index, top_k) ==
    {m \in SUBSET index : Cardinality(m) <= top_k}

\* get_parent_chunks_by_ids: find({"parent_id": {"$in": parent_ids}}); the
\* cursor yields the matching documents in an order of the store's choosing
get_parent_chunks_by_ids(parent_ids) ==
    {p \in parentColl : p.parent_id \in parent_ids}

\* the orders in which a store can return the items of a result set
Orders(S) == {f \in [1..Cardinality(S) -> S] : Range(f) = S}

\* parent_ids = [chunk["parent_id"] for chunk in child_chunks ...]: the
\* parent_id values in the order of the ranked matches, repeats kept
ParentIdList(matches) == [i \in DOMAIN matches |-> matches[i].parent_id]

\* "".join(chunk.get("text", "") for chunk in parent_chunks)
Context(parent_chunks) ==
    Concat([i \in DOMAIN parent_chunks |-> parent_chunks[i].text])

\* "if not child_chunks" taken as never true
NoMatchesNever(child_chunks) == FALSE

\* "if not child_chunks"
NoMatches(child_chunks) == child_chunks = {}

\* the parent_id values of the matches; every vector of the index carries one
ParentIdsOf(child_chunks) == {c.parent_id : c \in child_chunks}

\* the context taken as never empty
HasContextAlways(parent_chunks) == TRUE

\* "".join(chunk.get("text", "") for chunk in parent_chunks) is not empty
HasContext(parent_chunks) == \E p \in parent_chunks : p.text # <<>>

\* return QueryResponse(...)
Respond(answer, context_used) ==
    [code |-> 200, answer |-> answer, context_used |-> context_used]

\* the except block of query_documents: HTTPException(500)
Http500 == [code |-> 500, answer |-> None, context_used |-> FALSE]

\* a handler that answers a raised step with an empty 200 response
StepRaisedAnswered(step) ==
    [qry EXCEPT !.pc = "done", !.resp = Respond(None, FALSE), !.raised = @ \cup {step}]

\* a step of query_documents raised: the except block answers HTTP 500
StepRaised(step) ==
    [qry EXCEPT !.pc = "done", !.resp = Http500, !.raised = @ \cup {step}]

\* a request arrives; step 1, format_query_for_search
query_format ==
    /\ qry.pc \in {"idle", "done"}
    /\ \E k \in 1..MaxTopK, ok \in BOOLEAN :
           qry' = [pc |-> "embed", top_k |-> k,
                   calls |-> format_query_for_search(<<>>),
                   formatted_query |-> FormattedQuery("user query", ok),
                   raised |-> IF ok THEN {} ELSE {"format"},
                   found |-> 0, parent_ids |-> {}, ranked |-> <<>>,
                   context |-> <<>>, resp |-> NoQResp]
    /\ UNCHANGED <<pipeVars, chunkVars, otherVars>>

\* step 2, get_query_embedding
query_embed ==
    /\ qry.pc = "embed"
    /\ \/ qry' = [qry EXCEPT !.pc = "search"]
       \/ qry' = StepRaised("embed")
    /\ UNCHANGED <<pipeVars, chunkVars, otherVars>>

\* step 3, search_child_chunks, and the two early returns that follow it
query_search ==
    /\ qry.pc = "search"
    /\ \/ \E child_chunks \in search_child_chunks(vecIndex, qry.top_k) :
            \E matches \in Orders(child_chunks) :
              LET parent_ids == ParentIdsOf(child_chunks)
                  q1 == [qry EXCEPT !.found = Cardinality(child_chunks),
                                    !.ranked = ParentIdList(matches)]
              IN  qry' = IF NoMatches(child_chunks)
                         THEN [q1 EXCEPT !.pc = "done",
                                         !.resp = Respond(NoRelevantAnswer, FALSE)]
                         ELSE IF parent_ids = {}
                         THEN [q1 EXCEPT !.pc = "done",
                                         !.resp = Respond(NoParentIdsAnswer, FALSE)]
                         ELSE [q1 EXCEPT !.pc = "parents", !.parent_ids = parent_ids]
       \/ qry' = StepRaised("search")
    /\ UNCHANGED <<pipeVars, chunkVars, otherVars>>

\* step 4, get_parent_chunks_by_ids and the context
query_parents ==
    /\ qry.pc = "parents"
    /\ \/ \E parent_chunks \in Orders(get_parent_chunks_by_ids(qry.parent_ids)) :
            qry' = IF HasContext(Range(parent_chunks))
                   THEN [qry EXCEPT !.pc = "generate",
                                    !.context = Context(parent_chunks)]
                   ELSE [qry EXCEPT !.pc = "done",
                                    !.resp = Respond(NoContextAnswer, FALSE)]
       \/ qry' = StepRaised("parents")
    /\ UNCHANGED <<pipeVars, chunkVars, otherVars>>

\* steps 5 and 6, build_rag_prompt and generate_llm_response
query_generate ==
    /\ qry.pc = "generate"
    /\ LET calls == generate_llm_response(qry.calls, "gemini-2.5-flash")
       IN  \/ qry' = [qry EXCEPT !.pc = "done", !.calls = calls,
                                 !.resp = Respond("answer", TRUE)]
           \/ qry' = [StepRaised("generate") EXCEPT !.calls = calls]
    /\ UNCHANGED <<pipeVars, chunkVars, otherVars>>

NextQuery ==
    \/ Next
    \/ query_format
    \/ query_embed
    \/ query_search
    \/ query_parents
    \/ query_generate

SpecQuery == Init /\ [][NextQuery]_vars

(***************************************************************************)
(* Properties of process_document and upload_document.                     *)
(***************************************************************************)
HasRec(d) == rec[d] # NoRec

Finished(d) == pc[d] = "done"

\* the fixed sequence of stages; upsert and parents form one step of it
StageOrder == <<"extract", "normalize", "persist", "correct", "chunk", "ensure",
                "vector_store", "upsert", "parents", "complete">>

StageIdx(s) == CHOOSE i \in DOMAIN StageOrder : StageOrder[i] = s

\* the stages that come after s in the sequence; the parent-chunk insert
\* does not come after the upsert where the two are gathered
Later(s) ==
    {t \in Stages : StageIdx(t) > StageIdx(s)}
        \ (IF orch = "async" /\ s = "upsert" THEN {"parents"} ELSE {})

\* the stages that must have returned before s starts
Before(s) ==
    {t \in Stages : StageIdx(t) < StageIdx(s)}
        \ (IF s = "parents" THEN {"upsert"} ELSE {})

\* C1: the stored status of every record is processing, completed or
\* failed, and a step changes the status of a record only from processing
\* to completed or from processing to failed (so completed never follows
\* failed and failed never follows completed).
C1_StatusMachine ==
    [][\A d \in Docs :
          /\ rec'[d] # NoRec => rec'[d].status \in Statuses
          /\ (HasRec(d) /\ rec'[d] # NoRec /\ rec'[d].status # rec[d].status)
                => /\ rec[d].status = "processing"
                   /\ rec'[d].status \in {"completed", "failed"}]_vars

C1_Witness ==
    /\ \E d \in Docs : HasRec(d) /\ rec[d].status = "completed"
    /\ \E d \in Docs : HasRec(d) /\ rec[d].status = "failed"

\* C2: a record has status completed only if, in its run, the child-chunk
\* upsert and the parent-chunk insert had both returned: both stages are in
\* returned and their chunks are in the two stores.
C2_CompletedAfterBoth ==
    \A d \in Docs :
        (HasRec(d) /\ rec[d].status = "completed")
            => /\ {"upsert", "parents"} \subseteq returned[d]
               /\ add_documents_to_vector_store(d, ChildChunks(d)) \subseteq vecIndex
               /\ save_parent_chunks(d, ParentChunks(d)) \subseteq parentColl

C2_Witness ==
    /\ orch = "async"
    /\ \E d \in Docs :
           /\ HasRec(d) /\ rec[d].status = "completed"
           /\ ParentChunks(d) # <<>>

\* C3 (as stated): once a stage has raised, no later stage is started, and
\* the finished run has stored status failed and never completed.
C3_Original ==
    \A d \in Docs :
        err[d] # None
            => /\ started[d] \cap Later(err[d]) = {}
               /\ Finished(d) => HasRec(d) /\ rec[d].status = "failed"

\* C3 (amended): once a stage has raised, no later stage is started, the
\* run never stores completed, and it makes one attempt to write failed:
\* the stored status is failed when that write returned.
C3_AbortAndFail ==
    \A d \in Docs :
        err[d] # None
            => /\ started[d] \cap Later(err[d]) = {}
               /\ HasRec(d) => rec[d].status # "completed"
               /\ "complete" \notin returned[d]
               /\ Finished(d) => failWrite[d] \in {"ok", "raised"}
               /\ (Finished(d) /\ failWrite[d] = "ok")
                     => HasRec(d) /\ rec[d].status = "failed"

C3_Witness ==
    \E d \in Docs :
        /\ Finished(d) /\ err[d] = "upsert"
        /\ failWrite[d] = "ok" /\ rec[d].status = "failed"

\* C4: when a stage failed and the write of failed failed too, the
\* exception that leaves process_document is the stage's exception or
\* carries it as its cause.
C4_OriginalSurfaces ==
    \A d \in Docs :
        (Finished(d) /\ err[d] # None)
            => \/ propagated[d].exc = err[d]
               \/ propagated[d].cause = err[d]

\* C5: the record is written with status processing before the run is
\* scheduled, so whenever a run is scheduled or has started, or the caller
\* holds the doc_id, a record with a defined status exists; an upload whose
\* record write failed schedules no run.
C5_RecordExists ==
    \A d \in Docs :
        /\ (pc[d] # "idle" \/ started[d] # {} \/ upl[d] = "accepted")
              => HasRec(d) /\ rec[d].status \in Statuses
        /\ upl[d] = "error" => pc[d] = "idle" /\ started[d] = {} /\ ~HasRec(d)

C6_Safe ==
    resp.held
        => /\ resp.status \in Statuses \cup {"404"}
           /\ ~resp.finished
                 => \/ resp.status = "processing"
                    \/ /\ resp.status = "404"
                       /\ err[resp.doc_id] \in {"persist", "complete"}
           /\ (resp.finished /\ failWrite[resp.doc_id] # "raised")
                 => resp.status \in {"completed", "failed"}

Raised(d, s) ==
    \/ err[d] = s
    \/ s = "upsert" /\ task[d].vector = "raised"
    \/ s = "parents" /\ task[d].mongo = "raised"

Running(d) == {s \in started[d] \ returned[d] : ~Raised(d, s)}

\* C7: a stage is started only after every stage before it in the fixed
\* order has returned, and at most one stage of a run is in progress at a
\* time, except that the upsert and the parent-chunk insert may be in
\* progress together.
C7_StageOrder ==
    \A d \in Docs :
        /\ \A s \in started[d] : Before(s) \subseteq returned[d]
        /\ \/ Cardinality(Running(d)) <= 1
           \/ Running(d) = {"upsert", "parents"}

C7_Witness ==
    \E d \in Docs : Running(d) = {"upsert", "parents"}


(***************************************************************************)
(* Properties of chunk_text_hierarchical (SpecChunk).                      *)
(***************************************************************************)
\* the texts of the children of a result that carry parent_id k, in order
ChildTextsOf(r, k) ==
    LET own == SelectSeq(r.children, LAMBDA c : c.parent_id = k)
    IN  [j \in 1..Len(own) |-> own[j].text]

\* C8: in the result of chunk_text_hierarchical, for every text and every
\* pair of splitters with child size < parent size, the parents carry
\* parent_id 0..n-1 in segment order, the children of the parent at
\* position k are exactly the pieces split from that parent's text (so a
\* child's parent_id names one parent of the result), and a child's text is
\* a contiguous substring of that parent's text.
C8_ParentChildLink ==
    ck_out # <<>> =>
        LET r == ck_out[1]
            n == Len(r.parents)
        IN  /\ r.parents = [i \in 1..n |->
                  [parent_id |-> i - 1,
                   text |-> split_text(ck_in.parent, ck_in.text)[i]]]
            /\ \A j \in 1..Len(r.children) :
                  /\ r.children[j].parent_id \in 0..(n - 1)
                  /\ IsSubstring(r.children[j].text,
                                 r.parents[r.children[j].parent_id + 1].text)
            /\ \A i \in 1..n :
                  ChildTextsOf(r, i - 1) = split_text(ck_in.child, r.parents[i].text)

\* a result with two parents of different text, the second one split into
\* more than one child
C8_Witness ==
    /\ ck_out # <<>>
    /\ Len(ck_out[1].parents) >= 2
    /\ ck_out[1].parents[1].text # ck_out[1].parents[2].text
    /\ Len(ChildTextsOf(ck_out[1], 1)) >= 2
(***************************************************************************)
(* Properties of the stores and of query_documents.                        *)
(***************************************************************************)
\* C9: once every run that was started has finished, every child chunk in
\* the vector index that belongs to a completed document resolves, through
\* its parent_id and get_parent_chunks_by_ids, to exactly one stored parent
\* chunk, and that parent chunk was stored by the run of the same document.
C9_ChildResolvesToOwnParent ==
    \A c \in vecIndex :
        (/\ \A d \in Docs : pc[d] \in {"idle", "done"}
         /\ HasRec(c.id[1]) /\ rec[c.id[1]].status = "completed")
            => LET ps == get_parent_chunks_by_ids({c.parent_id})
               IN  /\ Cardinality(ps) = 1
                   /\ \A p \in ps : p.id[1] = c.id[1]

\* the query has been answered and its search had returned no match
ZeroMatchDone ==
    /\ qry.pc = "done"
    /\ qry.resp.code = 200
    /\ qry.found = 0

\* C10 (as stated): a query whose search returned zero matches returns
\* context_used = false with the fixed no-relevant-information answer, and
\* the generation service was not called at any point of that query.
C10_Original ==
    ZeroMatchDone
        => /\ qry.resp = Respond(NoRelevantAnswer, FALSE)
           /\ qry.calls = <<>>

\* C10 (amended): a query whose search returned zero matches returns
\* context_used = false with the fixed no-relevant-information answer, and
\* the only call of the generation service in that query is the
\* reformulation call made before the search: no answer is generated.
C10_ZeroMatchNoAnswerCall ==
    /\ ZeroMatchDone
          => /\ qry.resp = Respond(NoRelevantAnswer, FALSE)
             /\ qry.calls = <<"gemini-2.5-pro">>
    /\ (qry.pc = "done" /\ qry.resp.code = 200 /\ qry.found > 0
            /\ qry.resp.context_used)
          => qry.calls = <<"gemini-2.5-pro", "gemini-2.5-flash">>

\* a zero-match answer given while the index holds vectors
C10_Witness ==
    /\ ZeroMatchDone
    /\ qry.resp.answer = NoRelevantAnswer
    /\ vecIndex # {}
\* C11: when the search has returned at least one match and the parent
\* lookup finds no parent chunk, or only parent chunks of empty text, the
\* query ends at that step: unless the lookup itself raised, it returns
\* context_used = false with the no-context answer, which differs from the
\* answer of the zero-match case, and no call of the generation service is
\* added.
C11_NoParentsNoAnswer ==
    [][(/\ qry.pc = "parents"
        /\ qry' # qry
        /\ \A p \in parentColl : p.parent_id \in qry.parent_ids => p.text = <<>>)
          => /\ qry.found > 0
             /\ qry'.pc = "done"
             /\ \/ qry'.resp = Http500 /\ "parents" \in qry'.raised
                \/ qry'.resp = Respond(NoContextAnswer, FALSE)
             /\ NoContextAnswer # NoRelevantAnswer
             /\ qry'.calls = qry.calls
             /\ qry'.calls = <<"gemini-2.5-pro">>]_vars

\* a query answered with the no-context answer after a search with matches
C11_Witness ==
    /\ qry.pc = "done"
    /\ qry.found > 0
    /\ qry.resp = Respond(NoContextAnswer, FALSE)
\* C12: when the generation call that reformulates the query has failed,
\* format_query_for_search has returned the original query unchanged and
\* the query has gone on to the embedding; a query is answered with an
\* error only when a step after the reformulation has raised.
C12_ReformulationOptional ==
    /\ "format" \in qry.raised
          => /\ qry.formatted_query = "user query"
             /\ qry.pc \in {"embed", "search", "parents", "generate", "done"}
    /\ qry.resp = Http500
          => qry.raised \cap {"embed", "search", "parents", "generate"} # {}
    /\ (qry.pc = "done" /\ qry.raised \subseteq {"format"})
          => qry.resp.code = 200

\* a query answered from context although its reformulation had failed
C12_Witness ==
    /\ qry.pc = "done"
    /\ qry.raised = {"format"}
    /\ qry.formatted_query = "user query"
    /\ qry.resp.context_used

C14_RejectedBeforeCompleted ==
    [][(/\ sm' # sm
        /\ \/ rec[sm'.doc_id] = NoRec
           \/ rec[sm'.doc_id].status \in {"processing", "failed"})
          => /\ IF rec[sm'.doc_id] = NoRec
                THEN sm'.code = 404 /\ sm'.detail = "not found"
                ELSE sm'.code = 400 /\ sm'.detail = "still processing"
             /\ ~sm'.generated
             /\ sm'.summary = None
             /\ rec' = rec]_vars

\* a request for a document that is still processing was rejected, with
\* text already stored in its record
C14_Witness ==
    /\ sm.code = 400 /\ sm.detail = "still processing"
    /\ rec[sm.doc_id] # NoRec
    /\ rec[sm.doc_id].status = "processing"
    /\ rec[sm.doc_id].cleaned_text = "cleaned"

(***************************************************************************)
(* C15.  An update of an existing record that returns changes only the     *)
(* supplied fields.  update_document_status sets status, updated_at and    *)
(* the texts passed as non-None; save_document_summary sets summary and    *)
(* updated_at; doc_id, filename, filepath, created_at and every field not  *)
(* supplied keep their values, and updated_at becomes the time of the call.*)
(***************************************************************************)
C15_Kept(fields) ==
    \A f \in fields : md'.file[f] = md.file[f]

C15_PartialUpdate ==
    [][(/\ md'.call # md.call \/ md'.file # md.file
        /\ md.file # NoRec
        /\ md'.call.returned)
          => /\ md'.file # NoRec
             /\ md'.file.updated_at = md.clock
             /\ C15_Kept({"doc_id", "filename", "filepath", "created_at"})
             /\ md'.call.op \in {"update_document_status", "save_document_summary"}
             /\ md'.call.op = "update_document_status" =>
                  /\ md'.file.status = md'.call.status
                  /\ md'.file.processed_text =
                        IF md'.call.processed_text # None
                        THEN md'.call.processed_text ELSE md.file.processed_text
                  /\ md'.file.cleaned_text =
                        IF md'.call.cleaned_text # None
                        THEN md'.call.cleaned_text ELSE md.file.cleaned_text
                  /\ C15_Kept({"summary"})
             /\ md'.call.op = "save_document_summary" =>
                  /\ md'.file.summary = md'.call.summary
                  /\ C15_Kept({"status", "processed_text", "cleaned_text"})]_vars

\* a later update_document_status without texts returned on a record that
\* holds texts and a summary
C15_Witness ==
    /\ md.call.op = "update_document_status" /\ md.call.returned
    /\ md.call.processed_text = None /\ md.call.cleaned_text = None
    /\ md.file # NoRec
    /\ md.file.processed_text = "raw" /\ md.file.cleaned_text = "cleaned"
    /\ md.file.summary = "summary" /\ md.file.filename = "a.pdf"
    /\ md.file.created_at < md.file.updated_at

(***************************************************************************)
(* C16.  No step of query_documents changes a document record, a stored    *)
(* parent chunk, the vector index or its items, whatever the outcome of    *)
(* the step; and once embedding, search, parent lookup or answer           *)
(* generation has raised, the request is answered with HTTP 500.           *)
(***************************************************************************)
C16_QueryReadOnly ==
    [][/\ qry' # qry => /\ rec' = rec
                        /\ parentColl' = parentColl
                        /\ vecIndex' = vecIndex
                        /\ indexExists' = indexExists
       /\ qry'.raised \cap {"embed", "search", "parents", "generate"} # {}
            => qry'.pc = "done" /\ qry'.resp.code = 500 /\ qry'.resp.answer = None]_vars

\* answer generation raised on a query that had found context, with both
\* stores and a completed record in place
C16_Witness ==
    /\ qry.pc = "done" /\ "generate" \in qry.raised /\ qry.resp.code = 500
    /\ vecIndex # {} /\ parentColl # {}
    /\ \E d \in Docs : rec[d] # NoRec /\ rec[d].status = "completed"

(***************************************************************************)
(* C17.  pc.create_index is issued only while the index is absent: the     *)
(* step of a run that issues it starts in a state without the index.       *)
(***************************************************************************)
C17_CreateOnlyWhenAbsent ==
    [][\A d \in Docs :
          (pc[d] = "ensure_create" /\ pc'[d] # "ensure_create") => ~indexExists]_vars

(***************************************************************************)
(* C18.  Under every interleaving of first-use callers of a getter the     *)
(* client is constructed at most once, and all callers that have returned  *)
(* hold the same instance.                                                 *)
(***************************************************************************)
C18_ConstructedOnce ==
    /\ sg.built <= 1
    /\ \A t, u \in Callers :
          (sg.pc[t] = "done" /\ sg.pc[u] = "done") => sg.got[t] = sg.got[u]

(***************************************************************************)
(* C19.  Both normalizers are idempotent: normalizing the result of a      *)
(* normalization returns it unchanged.                                     *)
(***************************************************************************)
C19_Idempotent ==
    Len(nz.out) = 2 => nz.out[2] = nz.out[1]

\* a text with a hyphenated line break, a numeral line and a typographic
\* quote was normalized twice, and the first result differs from the text
C19_Witness ==
    /\ Len(nz.out) = 2
    /\ nz.out[1] # nz.text /\ nz.out[1] # <<>>
    /\ \E i \in 1..Len(nz.text) : nz.text[i] = NL
    /\ \E i \in 1..Len(nz.text) : nz.text[i] \in {"I", "-", LDQUO}

(***************************************************************************)
(* C20.  Normalizing 'This is a docu-<newline>ment about contracts. It     *)
(* has II<newline> page markers.' yields 'This is a document about         *)
(* contracts. It has page markers.'                                        *)
(***************************************************************************)
C20_Scenario ==
    (nz.text = ScenarioText /\ nz.out # <<>>) => nz.out[1] = ScenarioClean

(***************************************************************************)
(* C21.  Chunking a document of 3000 characters with parent size 1500 and  *)
(* parent overlap 200 yields exactly two parent chunks, with parent_ids 0  *)
(* and 1, each of at most 1500 characters.                                 *)
(***************************************************************************)
C21_TwoParents ==
    (/\ Len(ck_in.text) = 3000
     /\ ck_in.parent = Splitter(1500, 200)
     /\ ck_out # <<>>)
       => LET ps == ck_out[1].parents
          IN  /\ Len(ps) = 2
              /\ ps[1].parent_id = 0 /\ ps[2].parent_id = 1
              /\ \A i \in 1..2 : Len(ps[i].text) <= 1500

(***************************************************************************)
(* C22.  A run calls every stage at most once.  Its position only moves    *)
(* forward through the call sites of process_document; a step taken at a   *)
(* call site finds its stage not yet started; and once a stage has raised, *)
(* no stage is started any more.  A finished run stays finished.           *)
(***************************************************************************)
C22_Rank(p) ==
    CASE p = "idle" -> 0
      [] p = "extract" -> 1
      [] p = "normalize" -> 2
      [] p = "persist" -> 3
      [] p = "correct" -> 4
      [] p = "chunk" -> 5
      [] p = "ensure" -> 6
      [] p = "ensure_create" -> 7
      [] p = "vector_store" -> 8
      [] p \in {"upsert", "gather"} -> 9
      [] p \in {"parents", "await_gather"} -> 10
      [] p = "complete" -> 11
      [] p = "handler" -> 12
      [] p = "done" -> 13

\* the stages that the call site at position p calls
C22_CalledAt(p) ==
    IF p \in {"extract", "normalize", "persist", "correct", "chunk", "ensure",
              "vector_store", "upsert", "parents"}
    THEN {p}
    ELSE IF p = "gather" THEN {"upsert", "parents"} ELSE {}

C22_NoRetry ==
    [][\A d \in Docs :
          /\ pc'[d] # pc[d] => C22_Rank(pc'[d]) > C22_Rank(pc[d])
          /\ (pc'[d] # pc[d] \/ err'[d] # err[d] \/ started'[d] # started[d])
                => C22_CalledAt(pc[d]) \cap started[d] = {}
          /\ started[d] \subseteq started'[d]
          /\ err[d] # None => started'[d] = started[d] /\ err'[d] = err[d]]_vars

\* a run whose correction stage raised is finished, with the four stages
\* up to correction started and nothing after it
C22_Witness ==
    \E d \in Docs :
        /\ pc[d] = "done" /\ err[d] = "correct"
        /\ started[d] = {"extract", "normalize", "persist", "correct"}

(***************************************************************************)
(* C23.  Once the record of a run says failed, no task of that run adds    *)
(* child vectors to the vector index or parent chunks to the parent        *)
(* collection.                                                             *)
(***************************************************************************)
C23_NoWriteAfterFailed ==
    [][\A d \in Docs :
          (/\ rec[d] # NoRec
           /\ rec[d].status = "failed"
           /\ task'[d] # task[d])
             => vecIndex' = vecIndex /\ parentColl' = parentColl]_vars

(***************************************************************************)
(* C24.  In every reachable state, a record whose status is completed      *)
(* holds the raw extracted text and the normalized text, both non-null.    *)
(***************************************************************************)
C24_CompletedHasTexts ==
    \A d \in Docs :
        (rec[d] # NoRec /\ rec[d].status = "completed")
            => rec[d].processed_text # None /\ rec[d].cleaned_text # None

(***************************************************************************)
(* C25.  The context given to the answer prompt is the concatenation of    *)
(* the resolved parent texts in the order in which their parent_ids first  *)
(* appear in the ranked child matches, whatever the order in which the     *)
(* store returns the parent chunks.                                        *)
(***************************************************************************)
C25_FirstPos(ranked, id) ==
    CHOOSE i \in DOMAIN ranked :
        ranked[i] = id /\ \A j \in DOMAIN ranked : ranked[j] = id => i <= j

C25_InRankOrder(ps, ranked) ==
    \A i, j \in DOMAIN ps :
        i < j => C25_FirstPos(ranked, ps[i].parent_id)
                    <= C25_FirstPos(ranked, ps[j].parent_id)

C25_ContextInRankOrder ==
    [][(qry.pc = "parents" /\ qry'.pc = "generate")
          => \E ps \in Orders(get_parent_chunks_by_ids(qry.parent_ids)) :
                /\ C25_InRankOrder(ps, qry.ranked)
                /\ qry'.context = Context(ps)]_vars

(***************************************************************************)
(* C26.  The normalizer removes a line only if it consists solely of a     *)
(* decimal number or a Roman numeral, optionally surrounded by whitespace: *)
(* a single-line text that is not blank and whose content is neither a     *)
(* decimal number nor a Roman numeral (of either case) is not removed.     *)
(***************************************************************************)
C26_Place(one, five, ten) ==
    {<<>>, <<one>>, <<one, one>>, <<one, one, one>>, <<one, five>>, <<five>>,
     <<five, one>>, <<five, one, one>>, <<five, one, one, one>>, <<one, ten>>}

C26_RomanNumerals ==
    {th \o h \o t \o u :
        th \in {<<>>, <<"M">>, <<"M", "M">>, <<"M", "M", "M">>},
        h \in C26_Place("C", "D", "M"),
        t \in C26_Place("X", "L", "C"),
        u \in C26_Place("I", "V", "X")} \ {<<>>}

C26_UpperOf(c) ==
    CASE c = "i" -> "I" [] c = "v" -> "V" [] c = "x" -> "X" [] c = "l" -> "L"
      [] c = "c" -> "C" [] c = "d" -> "D" [] c = "m" -> "M" [] OTHER -> c

C26_IsRoman(tok) == [i \in DOMAIN tok |-> C26_UpperOf(tok[i])] \in C26_RomanNumerals

C26_IsDecimal(tok) == tok # <<>> /\ \A i \in DOMAIN tok : tok[i] \in Digits

C26_OnlyNumeralLinesRemoved ==
    (nz.out # <<>> /\ \A i \in DOMAIN nz.text : nz.text[i] # NL)
        => LET tok == strip(nz.text)
           IN  (tok # <<>> /\ ~C26_IsDecimal(tok) /\ ~C26_IsRoman(tok))
                   => nz.out[1] # <<>>

(***************************************************************************)
(* C27.  For every input of clean_ocr_text without a newline and without a *)
(* hyphen (the empty string included), the result is the input with        *)
(* whitespace runs collapsed, the ends trimmed and typographic quotes      *)
(* replaced, and nothing else removed or changed.                          *)
(***************************************************************************)
C27_PlainTextKept ==
    (/\ nz.out # <<>>
     /\ nz.fn = "clean_ocr_text"
     /\ \A i \in DOMAIN nz.text : nz.text[i] \notin {NL, "-"})
        => nz.out[1] = replace_smart_quotes(normalize_whitespace(nz.text))

(***************************************************************************)
(* C28.  The output of clean_ocr_text contains no typographic quotation    *)
(* mark and no typographic apostrophe.                                     *)
(***************************************************************************)
C28_NoTypographicQuotes ==
    (nz.out # <<>> /\ nz.fn = "clean_ocr_text")
        => \A i \in DOMAIN nz.out[1] : nz.out[1][i] \notin {LDQUO, RDQUO, RSQUO}

(***************************************************************************)
(* C29.  update_document_status on a doc_id without a record (never        *)
(* created, or deleted) creates the record: when it returns, the file      *)
(* holds the given status, filename "unknown", an empty filepath, a null   *)
(* summary and the texts that were passed (null where none was passed).    *)
(* After every update_document_status that returns, a record with exactly  *)
(* the given status exists.  save_document_summary on an absent record     *)
(* returns and creates nothing.                                            *)
(***************************************************************************)
C29_CallStep == md'.call # md.call \/ md'.file # md.file

C29_UpdateCreatesWhenAbsent ==
    [][C29_CallStep =>
         /\ (md'.call.op = "update_document_status" /\ md'.call.returned)
               => /\ md'.file # NoRec
                  /\ md'.file.status = md'.call.status
                  /\ md.file = NoRec
                        => md'.file =
                             [doc_id |-> 1, filename |-> "unknown", filepath |-> "",
                              status |-> md'.call.status,
                              processed_text |-> md'.call.processed_text,
                              cleaned_text |-> md'.call.cleaned_text,
                              summary |-> None,
                              created_at |-> md.clock, updated_at |-> md.clock]
         /\ (md'.call.op = "save_document_summary" /\ md.file = NoRec)
               => md'.file = NoRec /\ md'.call.returned]_vars

\* no record existed (never created, or deleted) some time after the start,
\* and an update_document_status without texts returned and created one
C29_Witness ==
    /\ md.call.op = "update_document_status" /\ md.call.returned
    /\ md.call.processed_text = None /\ md.call.cleaned_text = None
    /\ md.file # NoRec
    /\ md.file.filename = "unknown" /\ md.file.status = "completed"
    /\ md.file.created_at > 0

\* C29 as stated: the record created for an absent doc_id has null texts
C29_Original ==
    [][(/\ C29_CallStep
        /\ md.file = NoRec
        /\ md'.call.op = "update_document_status"
        /\ md'.call.returned)
          => /\ md'.file # NoRec
             /\ md'.file.processed_text = None
             /\ md'.file.cleaned_text = None]_vars

================================================================
